---- MODULE Spec2Model ----
(***************************************************************************)
(* A model of the symbol-map crate: the linked-list Table of boxed         *)
(* Symbols (src/src/table.rs) and the HashIndexing that owns a Table and   *)
(* keeps raw pointers into it (src/src/indexing.rs).                       *)
(*                                                                         *)
(* The heap is modelled explicitly: a Box<Symbol> is an address, `sym`     *)
(* maps every allocated address to the Symbol stored there, and the        *)
(* allocator hands out one of the lowest addresses that are not allocated. *)
(***************************************************************************)
EXTENDS Integers, Sequences, FiniteSets, TLC

\* ---------------------------------------------------------------- bounds
\* Most symbols a table may hold (guards insertion).
MaxLen == 2
\* Values of T are 1..MaxValue.
MaxValue == 2
\* How many of the free addresses the allocator may choose among.
AllocChoices == 1
\* Threads that read a shared index at the same time.
NThreads == 2
\* Bits of the narrow identifier type (u8 has 8).
IdBits == 1

\* Heap addresses: as many as a full table needs.
Addr == 1..MaxLen
Values == 1..MaxValue
\* The ids a remap callback may answer with.
IdChoices == 0..(MaxLen - 1)

\* Option::None for a Box pointer (head, next).
NULL == 0
\* Option::None as the answer of remap's callback.
Drop == -1

VARIABLES
    sym,        \* the heap: allocated address -> [id, data, next]
    head,       \* Table.head: address of the first Symbol, or NULL
    next_id,    \* Table.next_id
    loc,        \* who owns the Table: "caller", "index", or "dropped"
    by_symbol,  \* HashIndexing.by_symbol: set of [key, val], both addresses
    by_id,      \* HashIndexing.by_id: sequence of addresses
    order,      \* history: [addr, data, id] of each symbol as insert returned it,
                \* oldest first; a remap takes out the ones its callback drops
                \* and notes the id the callback gave to each of the others
    base,       \* history: what the table looked like when it was indexed
    created,    \* history: the symbols get_or_insert created in this index
    fresh,      \* history: no remap has run on this table since Table::new()
    iter,       \* the TableIter or TableIntoIter the caller holds: [on, remaining,
                \* item], and as history the addresses it yielded, whether it
                \* answered None, and the chain of the table it was made from
    held,       \* the reference the caller keeps from the last get,
                \* get_or_insert or get_symbol: an address, or NULL
    threads,    \* per reader thread sharing the index: [pc, op, arg, ptr, ret]
    last        \* the last call and what it returned

vars == <<sym, head, next_id, loc, by_symbol, by_id, order, base, created, fresh, iter, held, threads, last>>

\* ------------------------------------------------------------ identifiers
\* SymbolId for usize: Default::default() and next().
ZeroId == 0
NextId(d) == d + 1
AsUsize(d) == d

\* ------------------------------------------------------------------ heap
Alloc(s) == DOMAIN s
Free(s, a) == [x \in (DOMAIN s) \ {a} |-> s[x]]
Store(s, a, rec) == [x \in (DOMAIN s) \cup {a} |-> IF x = a THEN rec ELSE s[x]]

\* The addresses met walking the `next` links from h: what iter() yields.
RECURSIVE Chain(_, _)
Chain(s, h) == IF h = NULL THEN <<>> ELSE <<h>> \o Chain(s, s[h].next)

Range(q) == {q[i] : i \in 1..Len(q)}

\* Table::len
TableLen(nid) == AsUsize(nid)

\* Box::new: the addresses the allocator may return, the lowest free ones.
RECURSIVE LowestFree(_, _)
LowestFree(free, n) ==
    IF n = 0 \/ free = {} THEN {}
    ELSE LET m == CHOOSE x \in free : \A y \in free : x <= y
         IN  {m} \cup LowestFree(free \ {m}, n - 1)
BoxNew(s) == LowestFree(Addr \ Alloc(s), AllocChoices)

NoCall == [op |-> "none", arg |-> 0, ret |-> NULL, tag |-> "", ndrop |-> 0, map |-> {},
           calls |-> <<>>]
NoBase == [dupfree |-> FALSE, idsok |-> FALSE]
\* Option<(T, SymbolId)>::None, as a reader thread's result.
NoEntry == [some |-> FALSE, id |-> 0, data |-> 0]
\* A thread that is not in a call.
Idle == [pc |-> "idle", op |-> "", arg |-> 0, ptr |-> NULL, ret |-> NoEntry]
Threads == 1..NThreads
NoThreads == [t \in Threads |-> Idle]
\* No iterator is held.
NoIter == [on |-> FALSE, remaining |-> 0, item |-> NULL, seen |-> <<>>, ended |-> FALSE,
           chain |-> <<>>]

\* ----------------------------------------------------------------- Table
\* Mutant of InsertSym: the id is taken after next_id was advanced.
InsertSymAdvanced(s, h, nid, v, a) ==
    Store(s, a, [id |-> NextId(nid), data |-> v, next |-> h])

\* Table::insert: the new Symbol takes next_id and the old head as its next.
\* A new head that is not linked to the old one.
InsertSymDetached(s, h, nid, v, a) ==
    Store(s, a, [id |-> nid, data |-> v, next |-> NULL])

InsertSym(s, h, nid, v, a) ==
    Store(s, a, [id |-> nid, data |-> v, next |-> h])

\* Mutant of EmplaceHead: the Symbol is moved into a new Box when the
\* allocator has a free address.
EmplaceHeadReboxed(s, h, a) ==
    LET b == IF Addr \ Alloc(s) = {} THEN a ELSE CHOOSE x \in Addr \ Alloc(s) : TRUE
    IN  [sym |-> Store(Free(s, a), b, [s[a] EXCEPT !.next = h]), head |-> b]

\* Table::emplace_head: value.next takes the list's head, value becomes the head.
EmplaceHead(s, h, a) == [sym |-> [s EXCEPT ![a].next = h], head |-> a]

\* Table::remap's loop. h is the local `head`, rhead/rnext are `remapped`,
\* f the callback's answer for each symbol; calls lists the symbols f was
\* called with, in the order of the calls.
RECURSIVE RemapLoop(_, _, _, _, _)
RemapLoop(s, h, rhead, rnext, f) ==
    IF h = NULL
    THEN [sym |-> s, head |-> rhead, next_id |-> rnext, calls |-> <<>>]
    ELSE LET rest ==
                 IF f[h] # Drop
                 THEN LET next_head == s[h].next
                          s1 == [s EXCEPT ![h].next = NULL, ![h].id = f[h]]
                          e == EmplaceHead(s1, rhead, h)
                      IN  RemapLoop(e.sym, next_head, e.head, NextId(rnext), f)
                 ELSE RemapLoop(Free(s, h), s[h].next, rhead, rnext, f)
         IN  [rest EXCEPT !.calls = <<h>> \o @]

\* Mutant of Remap: `symbol.id = new_state_id` is left out.
RemapKeepsIds(s, h, f) ==
    RemapLoop(s, h, NULL, ZeroId,
              [a \in DOMAIN f |-> IF f[a] = Drop THEN Drop ELSE s[a].id])
\* Mutant of Remap: next_id is advanced for every symbol visited.
RemapCountsVisited(s, h, f) ==
    [RemapLoop(s, h, NULL, ZeroId, f) EXCEPT !.next_id = Len(Chain(s, h))]

\* Mutant of Remap: `remapped.next_id = remapped.next_id.next()` is left out.
RemapNoNextId(s, h, f) ==
    [RemapLoop(s, h, NULL, ZeroId, f) EXCEPT !.next_id = ZeroId]

\* Table::remap: the result replaces self.
Remap(s, h, f) == RemapLoop(s, h, NULL, ZeroId, f)

\* HashMap<T, D>::insert(k, x): the pair replaces the one an equal key had.
HashMapInsert(m, k, x) == {r \in m : r.key # k} \cup {[key |-> k, val |-> x]}

\* to_hash_map's loop: from the head on, each symbol's (data, id) is inserted.
RECURSIVE ToHashMapLoop(_, _, _)
ToHashMapLoop(s, h, m) ==
    IF h = NULL THEN m
    ELSE ToHashMapLoop(s, s[h].next, HashMapInsert(m, s[h].data, s[h].id))

\* Mutant of ToHashMap: the loop ends after the head.
ToHashMapHeadOnly(s, h) ==
    IF h = NULL THEN {} ELSE {[key |-> s[h].data, val |-> s[h].id]}

\* Table::to_hash_map
ToHashMap(s, h) == ToHashMapLoop(s, h, {})

\* Table::iter: remaining is len(), item the head.
TableIter(h, nid) == [remaining |-> TableLen(nid), item |-> h]

\* Mutant of TableIterNext: `self.remaining -= 1` is left out.
TableIterNextNoCount(s, it) ==
    IF it.item = NULL
    THEN [remaining |-> it.remaining, item |-> NULL, out |-> NULL]
    ELSE [remaining |-> it.remaining, item |-> s[it.item].next, out |-> it.item]

\* TableIter::next: the item is taken out; when there is one, remaining goes
\* down, the item's next takes its place and the item is the answer (out).
TableIterNext(s, it) ==
    IF it.item = NULL
    THEN [remaining |-> it.remaining, item |-> NULL, out |-> NULL]
    ELSE [remaining |-> it.remaining - 1, item |-> s[it.item].next, out |-> it.item]

\* Table::into_iter: remaining is len(), item the head, which moves out of
\* the table.
TableIntoIter(h, nid) == [remaining |-> TableLen(nid), item |-> h]

\* TableIntoIter::next: the item is taken out; when there is one, remaining
\* goes down, its next is swapped into the iterator (leaving None in the
\* symbol) and the symbol is the answer (out).
TableIntoIterNext(s, it) ==
    IF it.item = NULL
    THEN [sym |-> s, remaining |-> it.remaining, item |-> NULL, out |-> NULL]
    ELSE [sym |-> [s EXCEPT ![it.item].next = NULL],
          remaining |-> it.remaining - 1, item |-> s[it.item].next, out |-> it.item]

\* TableIter::size_hint: (remaining, Some(remaining)).
SizeHint(it) == [lower |-> it.remaining, upper |-> it.remaining]

\* Table::remap when the k-th call of the callback panics: self.head was
\* swapped out and self.next_id not touched; unwinding drops the locals
\* `remapped` (the symbols kept so far) and `symbol` (the one the callback
\* was called with, and through its next every symbol after it).
RemapUnwind(s, h, nid, k) ==
    [sym |-> <<>>, head |-> NULL, next_id |-> nid, calls |-> SubSeq(Chain(s, h), 1, k)]

\* The history after a remap: each kept symbol with the id f gave it.
Relabel(q, f) == [i \in 1..Len(q) |-> [q[i] EXCEPT !.id = f[q[i].addr]]]

Init ==
    /\ sym = <<>>
    /\ head = NULL
    /\ next_id = ZeroId
    /\ loc = "caller"
    /\ by_symbol = {}
    /\ by_id = <<>>
    /\ order = <<>>
    /\ base = NoBase
    /\ created = {}
    /\ fresh = TRUE
    /\ iter = NoIter
    /\ held = NULL
    /\ last = NoCall
    /\ threads = NoThreads

Owned == loc = "caller"

\* t.insert(v)
Insert ==
    /\ Owned
    /\ Cardinality(Alloc(sym)) < MaxLen
    /\ \E v \in Values, a \in BoxNew(sym) :
        /\ sym' = InsertSym(sym, head, next_id, v, a)
        /\ head' = a
        /\ next_id' = NextId(next_id)
        /\ order' = Append(order, [addr |-> a, data |-> v, id |-> next_id])
        /\ last' = [NoCall EXCEPT !.op = "insert", !.ret = a]
    /\ iter' = NoIter
    /\ held' = NULL
    /\ UNCHANGED <<loc, by_symbol, by_id, base, created, fresh>>
    /\ UNCHANGED threads

\* The callback numbers the symbols it keeps 0, 1, 2, ... in the order it is
\* called (the tests' `let id = new_id; new_id += 1; Some(id)`).
Sequential(s, h, f) ==
    LET kept == SelectSeq(Chain(s, h), LAMBDA a : f[a] # Drop)
    IN  \A i \in 1..Len(kept) : f[kept[i]] = i - 1

\* remap's caller contract: the ids given to the symbols that are kept are
\* a dense range starting at 0, no two symbols sharing one.
KeepsContract(s, f) ==
    LET kept == {a \in Alloc(s) : f[a] # Drop}
    IN  /\ \A a, b \in kept : f[a] = f[b] => a = b
        /\ \A a \in kept : f[a] < Cardinality(kept)

\* t.remap(f), f any callback when `any`, else one that keeps the contract.
RemapWith(any) ==
    /\ Owned
    /\ \E f \in [Alloc(sym) -> IdChoices \cup {Drop}] :
        LET r == Remap(sym, head, f) IN
        /\ any \/ KeepsContract(sym, f)
        /\ sym' = r.sym
        /\ head' = r.head
        /\ next_id' = r.next_id
        /\ order' = Relabel(SelectSeq(order, LAMBDA e : f[e.addr] # Drop), f)
        /\ last' = [NoCall EXCEPT !.op = "remap",
                                  !.calls = r.calls,
                                  !.tag = IF Sequential(sym, head, f) THEN "seq" ELSE "",
                                  !.ndrop = Cardinality({a \in Alloc(sym) : f[a] = Drop})]
    /\ fresh' = FALSE
    /\ iter' = NoIter
    /\ held' = NULL
    /\ UNCHANGED <<loc, by_symbol, by_id, base, created>>
    /\ UNCHANGED threads

\* t.remap(f) by a caller that keeps the contract.
RemapCall == RemapWith(FALSE)
\* t.remap(f) with the tests' callback, which numbers the symbols it keeps
\* 0, 1, 2, ... as it is called: `let id = new_id; new_id += 1; Some(id)`.
RemapSeq == RemapCall /\ last'.tag = "seq"
\* t.remap(f) with whatever ids the callback supplies.
RemapAny == RemapWith(TRUE)

\* t.remap(f) with an f that panics in one of its calls; the caller catches
\* the panic and still has t. Taken while len() is at most MaxLen, which
\* keeps next_id bounded.
RemapPanic ==
    /\ Owned
    /\ TableLen(next_id) <= MaxLen
    /\ \E k \in 1..Len(Chain(sym, head)) :
        LET r == RemapUnwind(sym, head, next_id, k) IN
        /\ sym' = r.sym
        /\ head' = r.head
        /\ next_id' = r.next_id
        /\ last' = [NoCall EXCEPT !.op = "remap", !.tag = "panic", !.calls = r.calls,
                                  !.arg = Cardinality(Alloc(sym))]
    /\ order' = <<>>
    /\ fresh' = FALSE
    /\ iter' = NoIter
    /\ held' = NULL
    /\ UNCHANGED <<loc, by_symbol, by_id, base, created>>
    /\ UNCHANGED threads

\* Box::new(table): head and next_id are copied to a new place, which no
\* Symbol refers to; the Symbols stay where their Boxes are.
MoveTable ==
    /\ Owned
    /\ last' = [NoCall EXCEPT !.op = "move"]
    /\ UNCHANGED <<sym, head, next_id, loc, by_symbol, by_id, order, base, created, fresh, iter, held>>
    /\ UNCHANGED threads

\* t.iter(): the caller takes a new iterator over the table.
IterCall ==
    /\ Owned
    /\ iter' = [NoIter EXCEPT !.on = TRUE,
                              !.remaining = TableIter(head, next_id).remaining,
                              !.item = TableIter(head, next_id).item]
    /\ last' = [NoCall EXCEPT !.op = "iter"]
    /\ UNCHANGED <<sym, head, next_id, loc, by_symbol, by_id, order, base, created, fresh, held>>
    /\ UNCHANGED threads

\* it.next() on the iterator held; last.arg is size_hint().0 before the call.
IterNextCall ==
    /\ Owned
    /\ iter.on
    /\ LET r == TableIterNext(sym, iter) IN
        /\ iter' = [iter EXCEPT !.remaining = r.remaining,
                                !.item = r.item,
                                !.seen = IF r.out = NULL THEN @ ELSE Append(@, r.out),
                                !.ended = @ \/ r.out = NULL]
        /\ last' = [NoCall EXCEPT !.op = "next", !.arg = SizeHint(iter).lower, !.ret = r.out]
    /\ UNCHANGED <<sym, head, next_id, loc, by_symbol, by_id, order, base, created, fresh, held>>
    /\ UNCHANGED threads

\* t.to_hash_map(): the table is consumed, its symbols are dropped one by
\* one, and the map is what the caller is left with. last.arg is len() before.
ToHashMapCall ==
    /\ Owned
    /\ last' = [NoCall EXCEPT !.op = "to_hash_map", !.arg = TableLen(next_id),
                              !.map = ToHashMap(sym, head)]
    /\ loc' = "dropped"
    /\ sym' = <<>>
    /\ head' = NULL
    /\ next_id' = ZeroId
    /\ order' = <<>>
    /\ fresh' = TRUE
    /\ iter' = NoIter
    /\ held' = NULL
    /\ UNCHANGED <<by_symbol, by_id, base, created>>
    /\ UNCHANGED threads

\* ---------------------------------------------------------- HashIndexing
\* HashMap<Ref<T>, Ref<Symbol<T>>>: Ref's Hash and Eq dereference the key
\* pointer, so a key matches v when the data behind it equals v.
MapFind(bs, s, v) == {r \in bs : s[r.key].data = v}

\* HashMap::get, then Ref::deref: the address of the Symbol found, or NULL.
MapGet(bs, s, v) ==
    IF MapFind(bs, s, v) = {} THEN NULL ELSE (CHOOSE r \in MapFind(bs, s, v) : TRUE).val

\* Mutant of MapInsert: the pair is not stored.
MapInsertLost(bs, s, k, x) == bs

\* Mutant of MapInsert: the pair is added whether or not an equal key is there.
MapInsertAlways(bs, s, k, x) == bs \cup {[key |-> k, val |-> x]}

\* HashMap::insert(Ref(k.data), Ref(x)): an equal key keeps its place and
\* takes the new value; otherwise the pair is added.
MapInsert(bs, s, k, x) ==
    IF MapFind(bs, s, s[k].data) = {}
    THEN bs \cup {[key |-> k, val |-> x]}
    ELSE {IF s[r.key].data = s[k].data THEN [r EXCEPT !.val = x] ELSE r : r \in bs}

\* from_table's loop over table.iter(): ok is FALSE when by_id[id] is out of
\* bounds, which panics.
RECURSIVE FromTableLoop(_, _, _, _)
FromTableLoop(s, h, bs, bi) ==
    IF h = NULL
    THEN [ok |-> TRUE, by_symbol |-> bs, by_id |-> bi]
    ELSE IF AsUsize(s[h].id) >= Len(bi)
         THEN [ok |-> FALSE, by_symbol |-> {}, by_id |-> <<>>]
         ELSE FromTableLoop(s, s[h].next, MapInsert(bs, s, h, h),
                            [bi EXCEPT ![AsUsize(s[h].id) + 1] = h])

\* Mutant of FromTable: `by_id[id] = Ref::new(symbol)` is left out.
FromTableNoById(s, h, nid) ==
    LET fill == IF h = NULL THEN <<>> ELSE [i \in 1..TableLen(nid) |-> h]
    IN  [FromTableLoop(s, h, {}, fill) EXCEPT !.by_id = fill]

\* HashIndexing::from_table: by_id starts as len() copies of the head.
FromTable(s, h, nid) ==
    FromTableLoop(s, h, {},
                  IF h = NULL THEN <<>> ELSE [i \in 1..TableLen(nid) |-> h])

\* Mutant of Get: the value looked for is ignored and any pair answers.
GetAnyPair(bs, s, v) == IF bs = {} THEN NULL ELSE (CHOOSE r \in bs : TRUE).val

\* HashIndexing::get
Get(bs, s, v) == MapGet(bs, s, v)

\* Mutant of GetSymbol: the id is used as a 1-based position.
GetSymbolOffByOne(bi, i) ==
    IF AsUsize(i) >= 1 /\ AsUsize(i) <= Len(bi) THEN bi[AsUsize(i)] ELSE NULL

\* HashIndexing::get_symbol: Vec::get, then Ref::deref.
GetSymbol(bi, i) == IF AsUsize(i) < Len(bi) THEN bi[AsUsize(i) + 1] ELSE NULL

\* Mutant of Occupied: the entry is never found, so every call inserts.
NeverOccupied(bs, s, v) == FALSE

\* get_or_insert's test: by_symbol.entry(Ref::new(&data)) is Occupied.
Occupied(bs, s, v) == MapFind(bs, s, v) # {}

\* No two symbols of the table hold the same value / carry the same id.
NoDupValues(s) == \A a, b \in Alloc(s) : s[a].data = s[b].data => a = b
NoDupIds(s) == \A a, b \in Alloc(s) : s[a].id = s[b].id => a = b

\* HashIndexing::from_table(t): the table moves into the index; a panic
\* unwinds and drops the table with all its symbols.
FromTableCall ==
    /\ Owned
    /\ LET r == FromTable(sym, head, next_id) IN
       IF r.ok
       THEN /\ loc' = "index"
            /\ by_symbol' = r.by_symbol
            /\ by_id' = r.by_id
            /\ base' = [dupfree |-> NoDupValues(sym), idsok |-> NoDupIds(sym)]
            /\ last' = [NoCall EXCEPT !.op = "from_table"]
            /\ UNCHANGED <<sym, head, next_id, order, fresh>>
       ELSE /\ loc' = "dropped"
            /\ sym' = <<>>
            /\ head' = NULL
            /\ next_id' = ZeroId
            /\ order' = <<>>
            /\ fresh' = TRUE
            /\ last' = [NoCall EXCEPT !.op = "from_table", !.tag = "panic"]
            /\ UNCHANGED <<by_symbol, by_id, base>>
    /\ created' = {}
    /\ iter' = NoIter
    /\ held' = NULL
    /\ UNCHANGED threads

\* Table::new() after the old table is gone.
NewTable ==
    /\ loc = "dropped"
    /\ loc' = "caller"
    /\ last' = [NoCall EXCEPT !.op = "new"]
    /\ UNCHANGED <<sym, head, next_id, by_symbol, by_id, order, base, created, fresh, iter, held>>
    /\ UNCHANGED threads

\* index.to_table(): the table moves out, the pointers are discarded.
ToTable ==
    /\ loc = "index"
    /\ loc' = "caller"
    /\ by_symbol' = {}
    /\ by_id' = <<>>
    /\ base' = NoBase
    /\ created' = {}
    /\ last' = [NoCall EXCEPT !.op = "to_table"]
    /\ held' = NULL
    /\ UNCHANGED <<sym, head, next_id, order, fresh, iter>>
    /\ UNCHANGED threads

\* index.get(&v)
GetCall ==
    /\ loc = "index"
    /\ \E v \in Values :
        /\ last' = [NoCall EXCEPT !.op = "get", !.arg = v, !.ret = Get(by_symbol, sym, v)]
        /\ held' = Get(by_symbol, sym, v)
    /\ UNCHANGED <<sym, head, next_id, loc, by_symbol, by_id, order, base, created, fresh, iter>>
    /\ UNCHANGED threads

\* index.get_symbol(&i)
GetSymbolCall ==
    /\ loc = "index"
    /\ \E i \in 0..MaxLen :
        /\ last' = [NoCall EXCEPT !.op = "get_symbol", !.arg = i, !.ret = GetSymbol(by_id, i)]
        /\ held' = GetSymbol(by_id, i)
    /\ UNCHANGED <<sym, head, next_id, loc, by_symbol, by_id, order, base, created, fresh, iter>>
    /\ UNCHANGED threads

\* index.get_or_insert(v)
GetOrInsertCall ==
    /\ loc = "index"
    /\ \E v \in Values :
        IF Occupied(by_symbol, sym, v)
        THEN /\ last' = [NoCall EXCEPT !.op = "get_or_insert", !.arg = v, !.tag = "Present",
                                       !.ret = MapGet(by_symbol, sym, v)]
             /\ held' = MapGet(by_symbol, sym, v)
             /\ UNCHANGED <<sym, head, next_id, by_symbol, by_id, order, created>>
        ELSE /\ Cardinality(Alloc(sym)) < MaxLen
             /\ \E a \in BoxNew(sym) :
                 /\ sym' = InsertSym(sym, head, next_id, v, a)
                 /\ head' = a
                 /\ next_id' = NextId(next_id)
                 /\ by_symbol' = MapInsert(by_symbol, sym', a, a)
                 /\ by_id' = Append(by_id, a)
                 /\ order' = Append(order, [addr |-> a, data |-> v, id |-> next_id])
                 /\ created' = created \cup {[addr |-> a, data |-> v, id |-> next_id]}
                 /\ last' = [NoCall EXCEPT !.op = "get_or_insert", !.arg = v, !.tag = "New",
                                           !.ret = a]
                 /\ held' = a
    /\ UNCHANGED <<loc, base, fresh, iter>>
    /\ UNCHANGED threads

\* A thread that shares the index (Arc<HashIndexing>, or a reference to it)
\* starts a get(&v) or a get_symbol(&i).
ThreadCall(t) ==
    /\ loc = "index"
    /\ threads[t].pc = "idle"
    /\ \/ \E v \in Values :
            threads' = [threads EXCEPT ![t] = [Idle EXCEPT !.pc = "lookup", !.op = "get", !.arg = v]]
       \/ \E i \in 0..MaxLen :
            threads' = [threads EXCEPT ![t] = [Idle EXCEPT !.pc = "lookup", !.op = "get_symbol", !.arg = i]]
    /\ UNCHANGED <<sym, head, next_id, loc, by_symbol, by_id, order, base, created, fresh,
                   iter, held, last>>

\* The thread's call reads the lookup structure and has the Ref it found.
ThreadLookup(t) ==
    /\ threads[t].pc = "lookup"
    /\ threads' = [threads EXCEPT ![t].pc = "deref",
                                  ![t].ptr = IF threads[t].op = "get"
                                             THEN Get(by_symbol, sym, threads[t].arg)
                                             ELSE GetSymbol(by_id, threads[t].arg)]
    /\ UNCHANGED <<sym, head, next_id, loc, by_symbol, by_id, order, base, created, fresh,
                   iter, held, last>>

\* The thread's closure reads the Symbol behind the reference:
\* `.map(|x| (*x.data(), x.id()))`.
ThreadRead(t) ==
    /\ threads[t].pc = "deref"
    /\ threads' = [threads EXCEPT ![t].pc = "done",
                                  ![t].ret = IF threads[t].ptr = NULL THEN NoEntry
                                             ELSE [some |-> TRUE,
                                                   id |-> sym[threads[t].ptr].id,
                                                   data |-> sym[threads[t].ptr].data]]
    /\ UNCHANGED <<sym, head, next_id, loc, by_symbol, by_id, order, base, created, fresh,
                   iter, held, last>>

\* The thread is joined and its result taken.
ThreadJoin(t) ==
    /\ threads[t].pc = "done"
    /\ threads' = [threads EXCEPT ![t] = Idle]
    /\ UNCHANGED <<sym, head, next_id, loc, by_symbol, by_id, order, base, created, fresh,
                   iter, held, last>>

\* t.into_iter(): the table is consumed; its symbols belong to the iterator.
IntoIterCall ==
    /\ Owned
    /\ loc' = "into_iter"
    /\ iter' = [NoIter EXCEPT !.on = TRUE,
                              !.remaining = TableIntoIter(head, next_id).remaining,
                              !.item = TableIntoIter(head, next_id).item,
                              !.chain = Chain(sym, head)]
    /\ head' = NULL
    /\ next_id' = ZeroId
    /\ last' = [NoCall EXCEPT !.op = "into_iter", !.arg = TableLen(next_id)]
    /\ UNCHANGED <<sym, by_symbol, by_id, order, base, created, fresh, held, threads>>

\* it.next() on the consuming iterator; the caller keeps the Box it gets.
\* last.arg is size_hint().0 before the call.
IntoIterNextCall ==
    /\ loc = "into_iter"
    /\ LET r == TableIntoIterNext(sym, iter) IN
        /\ sym' = r.sym
        /\ iter' = [iter EXCEPT !.remaining = r.remaining,
                                !.item = r.item,
                                !.seen = IF r.out = NULL THEN @ ELSE Append(@, r.out),
                                !.ended = @ \/ r.out = NULL]
        /\ last' = [NoCall EXCEPT !.op = "next", !.arg = SizeHint(iter).lower, !.ret = r.out]
    /\ UNCHANGED <<head, next_id, loc, by_symbol, by_id, order, base, created, fresh, held,
                   threads>>

\* The iterator and the symbols the caller got from it are dropped.
IntoIterDrop ==
    /\ loc = "into_iter"
    /\ loc' = "dropped"
    /\ sym' = <<>>
    /\ iter' = NoIter
    /\ order' = <<>>
    /\ fresh' = TRUE
    /\ last' = [NoCall EXCEPT !.op = "drop"]
    /\ UNCHANGED <<head, next_id, by_symbol, by_id, base, created, held, threads>>

\* Table::retain(predicate), with keep the symbols the predicate holds for.
\* Its code is not in the source files; written from its description: one
\* walk of the chain, the symbols that fail the predicate are dropped, the
\* others stay at their addresses in the order they were in and are numbered
\* 0, 1, 2, ... in walk order.
Retain(s, h, keep) ==
    LET kept == SelectSeq(Chain(s, h), LAMBDA a : a \in keep)
        pos(a) == CHOOSE i \in 1..Len(kept) : kept[i] = a
    IN  [sym |-> [a \in Range(kept) |->
                     [id |-> pos(a) - 1, data |-> s[a].data,
                      next |-> IF pos(a) < Len(kept) THEN kept[pos(a) + 1] ELSE NULL]],
         head |-> IF Len(kept) = 0 THEN NULL ELSE kept[1],
         next_id |-> Len(kept)]

\* Indexed::retain(predicate): index.clear(), table.retain(predicate), then
\* the index is built again over the table. It takes `&mut self`, and the
\* references get, get_or_insert and get_symbol returned are `&'a Symbol`
\* with 'a the lifetime of the Indexed's borrow of the table, not of the
\* borrow of self those calls took: the caller may still hold one.
IndexedRetain ==
    /\ loc = "index"
    /\ \E keep \in SUBSET Alloc(sym) :
        LET r == Retain(sym, head, keep)
            x == FromTable(r.sym, r.head, r.next_id)
        IN  /\ sym' = r.sym
            /\ head' = r.head
            /\ next_id' = r.next_id
            /\ by_symbol' = x.by_symbol
            /\ by_id' = x.by_id
            /\ order' = Relabel(SelectSeq(order, LAMBDA e : e.addr \in keep),
                                [a \in keep |-> r.sym[a].id])
            /\ base' = [dupfree |-> NoDupValues(r.sym), idsok |-> NoDupIds(r.sym)]
            /\ last' = [NoCall EXCEPT !.op = "retain",
                                      !.ndrop = Cardinality(Alloc(sym) \ keep)]
    /\ created' = {}
    /\ fresh' = FALSE
    /\ UNCHANGED <<loc, iter, held>>
    /\ UNCHANGED threads

\* Mutant of IndexClear: the lookup structures are left as they are.
IndexClearNothing(bs, bi) == [by_symbol |-> bs, by_id |-> bi]

\* The index's clear(). Its code is not in the source files; written from
\* its description: the current lookup structures are discarded.
IndexClear(bs, bi) == [by_symbol |-> {}, by_id |-> <<>>]

\* Indexed::retain, first statement: self.index.clear().
RetainClear ==
    /\ loc = "index"
    /\ loc' = "retain_cleared"
    /\ by_symbol' = IndexClear(by_symbol, by_id).by_symbol
    /\ by_id' = IndexClear(by_symbol, by_id).by_id
    /\ created' = {}
    /\ last' = [NoCall EXCEPT !.op = "retain", !.tag = "clear"]
    /\ UNCHANGED <<sym, head, next_id, order, base, fresh, iter, held, threads>>

\* Indexed::retain, second statement: self.table.retain(predicate).
RetainCompact ==
    /\ loc = "retain_cleared"
    /\ loc' = "retain_compacted"
    /\ \E keep \in SUBSET Alloc(sym) :
        LET r == Retain(sym, head, keep) IN
        /\ sym' = r.sym
        /\ head' = r.head
        /\ next_id' = r.next_id
        /\ order' = Relabel(SelectSeq(order, LAMBDA e : e.addr \in keep),
                            [a \in keep |-> r.sym[a].id])
        /\ last' = [NoCall EXCEPT !.op = "retain", !.tag = "compact",
                                  !.ndrop = Cardinality(Alloc(sym) \ keep)]
    /\ fresh' = FALSE
    /\ UNCHANGED <<by_symbol, by_id, base, created, iter, held, threads>>

\* Indexed::retain, third statement: self.index.index(table), after which
\* retain returns.
RetainIndex ==
    /\ loc = "retain_compacted"
    /\ loc' = "index"
    /\ LET x == FromTable(sym, head, next_id) IN
        /\ by_symbol' = x.by_symbol
        /\ by_id' = x.by_id
    /\ base' = [dupfree |-> NoDupValues(sym), idsok |-> NoDupIds(sym)]
    /\ last' = [NoCall EXCEPT !.op = "retain", !.tag = "index"]
    /\ UNCHANGED <<sym, head, next_id, order, created, fresh, iter, held, threads>>

\* The callers that keep remap's contract.
Next ==
    \/ Insert
    \/ RemapCall
    \/ MoveTable
    \/ FromTableCall
    \/ ToTable
    \/ GetCall
    \/ GetSymbolCall
    \/ GetOrInsertCall

Spec == Init /\ [][Next]_vars

\* The table under callbacks that supply any ids, and what from_table makes
\* of the result.
NextAnyIds ==
    \/ Insert
    \/ RemapAny
    \/ FromTableCall
    \/ ToHashMapCall
    \/ NewTable

SpecAnyIds == Init /\ [][NextAnyIds]_vars

\* The table under insert and remap, read through iterators. The ids are
\* not read by iter(), next() or size_hint().
NextIter ==
    \/ Insert
    \/ RemapCall
    \/ IterCall
    \/ IterNextCall

SpecIter == Init /\ [][NextIter]_vars

\* An index over a borrowed table (src/src/lib.rs): hash_index(&mut t), the
\* lookups, and retain through the index.
NextBorrowed ==
    \/ Insert
    \/ FromTableCall
    \/ GetCall
    \/ GetSymbolCall
    \/ GetOrInsertCall
    \/ IndexedRetain

SpecBorrowed == Init /\ [][NextBorrowed]_vars

\* An index over a borrowed table, with retain taken statement by statement.
NextRetainSteps ==
    \/ Insert
    \/ FromTableCall
    \/ GetCall
    \/ GetOrInsertCall
    \/ RetainClear
    \/ RetainCompact
    \/ RetainIndex

SpecRetainSteps == Init /\ [][NextRetainSteps]_vars

\* The table under insert and remap, consumed by into_iter.
NextIntoIter ==
    \/ Insert
    \/ RemapCall
    \/ IntoIterCall
    \/ IntoIterNextCall
    \/ IntoIterDrop
    \/ NewTable

SpecIntoIter == Init /\ [][NextIntoIter]_vars

\* The table under insert and the remaps that number the survivors in
\* callback order.
NextSeq ==
    \/ Insert
    \/ RemapSeq
    \/ MoveTable
    \/ IterCall
    \/ IterNextCall

SpecSeq == Init /\ [][NextSeq]_vars

\* An index built by one thread and then shared by threads that only read.
NextShared ==
    \/ Insert
    \/ FromTableCall
    \/ \E t \in Threads : ThreadCall(t)
    \/ \E t \in Threads : ThreadLookup(t)
    \/ \E t \in Threads : ThreadRead(t)
    \/ \E t \in Threads : ThreadJoin(t)

SpecShared == Init /\ [][NextShared]_vars

\* The table under callers that catch the panic of a remap callback.
NextUnwind ==
    \/ Insert
    \/ RemapCall
    \/ RemapPanic
    \/ MoveTable

SpecUnwind == Init /\ [][NextUnwind]_vars

\* ---------------------------------------------------------------- claims
TheChain == Chain(sym, head)
\* The addresses insert returned for the live symbols, oldest first.
OrderAddrs == [i \in 1..Len(order) |-> order[i].addr]
Reverse(q) == [i \in 1..Len(q) |-> q[Len(q) + 1 - i]]

\* C1, in states reached by insert calls only: the k-th inserted symbol
\* (k = 0..N-1) is live, carries the id k and the value inserted, and the
\* chain from the head lists the symbols newest first, so the live ids are
\* exactly 0..N-1, each once.
C1_Ids ==
    fresh =>
        /\ Len(TheChain) = Len(order)
        /\ TheChain = Reverse(OrderAddrs)
        /\ \A k \in 1..Len(order) :
            /\ sym[order[k].addr].id = k - 1
            /\ sym[order[k].addr].data = order[k].data
        /\ {sym[a].id : a \in Alloc(sym)} = 0..(Len(order) - 1)
\* C1, each insert call: it allocates a Symbol at an address that was free,
\* gives it the id next_id had, makes it the head and links the old head
\* after it, whatever values the table already holds.
C1_Step ==
    last'.op = "insert" =>
        /\ head' \notin Alloc(sym)
        /\ Alloc(sym') = Alloc(sym) \cup {head'}
        /\ sym'[head'].id = next_id
        /\ sym'[head'].next = head
        /\ last'.ret = head'
        /\ \A a \in Alloc(sym) : sym'[a] = sym[a]
\* C1: N insert calls on a new table create the ids 0..N-1 in insertion
\* order, each new symbol becoming the head with the old head as its next.
C1_InsertSequentialIds == [](C1_Ids) /\ [][C1_Step]_vars
\* A table filled by inserts of one value, and nothing else.
C1_Witness ==
    /\ fresh /\ loc = "caller" /\ last.op = "insert"
    /\ Len(order) = MaxLen
    /\ order[1].data = order[MaxLen].data

\* C2: in an index built over a table without duplicate values,
\* get_or_insert never creates a second symbol for a value, and each symbol
\* it created keeps its id and address and is what get(v),
\* get_or_insert(v) and get_symbol(id) resolve to.
C2_OneEntryPerValue ==
    (loc = "index" /\ base.dupfree) =>
        /\ \A a, b \in Alloc(sym) : sym[a].data = sym[b].data => a = b
        /\ \A c \in created :
            /\ c.addr \in Alloc(sym)
            /\ sym[c.addr].id = c.id
            /\ sym[c.addr].data = c.data
            /\ Get(by_symbol, sym, c.data) = c.addr
            /\ GetSymbol(by_id, c.id) = c.addr
            /\ (last.op \in {"get", "get_or_insert"} /\ last.arg = c.data) => last.ret = c.addr
            /\ (last.op = "get_symbol" /\ last.arg = c.id) => last.ret = c.addr
            /\ (last.op = "get_or_insert" /\ last.arg = c.data /\ last.tag = "New")
                   => head = c.addr
\* Two symbols created through the index, then a hit on the older one.
C2_Witness ==
    /\ loc = "index" /\ base.dupfree
    /\ Cardinality(created) = 2
    /\ last.op = "get_or_insert" /\ last.tag = "Present"
    /\ \E c \in created : c.addr = last.ret /\ c.addr # head

\* Both lookup structures match the table's live symbols exactly.
IndexExact ==
    /\ Len(by_id) = TableLen(next_id)
    /\ \A i \in 1..Len(by_id) : by_id[i] \in Alloc(sym) /\ sym[by_id[i]].id = i - 1
    /\ Cardinality(by_symbol) = Cardinality(Alloc(sym))
    /\ {r.val : r \in by_symbol} = Alloc(sym)
    /\ \A r \in by_symbol :
        /\ r.key \in Alloc(sym)
        /\ sym[r.val].data = sym[r.key].data
    /\ \A r1, r2 \in by_symbol : sym[r1.key].data = sym[r2.key].data => r1 = r2

\* C3 as stated: after every index operation both lookup structures match
\* the live symbols exactly, for every table an index can be built over.
C3_IndexExactAlways == loc = "index" => IndexExact
\* C3 as amended: the same, for an index built over a table whose values are
\* pairwise distinct and whose ids are pairwise distinct.
C3_IndexExact == (loc = "index" /\ base.dupfree /\ base.idsok) => IndexExact
\* An index over a compacted table, grown by a get_or_insert, then read.
C3_Witness ==
    /\ loc = "index" /\ base.dupfree /\ base.idsok /\ ~fresh
    /\ Len(by_id) = MaxLen /\ Cardinality(created) = 1
    /\ last.op = "get_symbol" /\ last.ret # NULL

\* get_symbol(e.id) holds e's value and get(e.value) carries e's id.
RoundTrip(a) ==
    /\ GetSymbol(by_id, sym[a].id) # NULL
    /\ sym[GetSymbol(by_id, sym[a].id)].data = sym[a].data
    /\ Get(by_symbol, sym, sym[a].data) # NULL
    /\ sym[Get(by_symbol, sym, sym[a].data)].id = sym[a].id

\* C4 as stated: the round trip holds for every live symbol of every
\* indexed table.
C4_RoundTripAlways == loc = "index" => \A a \in Alloc(sym) : RoundTrip(a)
\* C4 as amended: the round trip holds for every live symbol of an indexed
\* table whose values are pairwise distinct and whose ids are pairwise
\* distinct.
C4_RoundTrip ==
    (loc = "index" /\ base.dupfree /\ base.idsok) => \A a \in Alloc(sym) : RoundTrip(a)
\* A full index, part of it built by from_table and part by get_or_insert.
C4_Witness ==
    /\ loc = "index" /\ base.dupfree /\ base.idsok
    /\ Cardinality(Alloc(sym)) = MaxLen
    /\ Cardinality(created) = 1
    /\ last.op = "get"  /\ last.ret # NULL

\* C5 as stated: the chain from the head lists the live symbols newest
\* first in every state reached by insert and remap, so a remap leaves the
\* symbols it keeps in the order they were in.
C5_NewestFirst == TheChain = Reverse(OrderAddrs)

\* C6: after remap(f) the live symbols are exactly the ones f answered
\* Some(d) for, each at the id d and with the value it had; the others are
\* gone, and when none is kept the table is empty with len() = 0.
C6_RemapResult ==
    last.op = "remap" =>
        /\ Alloc(sym) = Range(OrderAddrs)
        /\ Range(TheChain) = Range(OrderAddrs)
        /\ Len(TheChain) = Len(order)
        /\ \A i \in 1..Len(order) :
            /\ sym[order[i].addr].id = order[i].id
            /\ sym[order[i].addr].data = order[i].data
        /\ Len(order) = 0 => (head = NULL /\ TableLen(next_id) = 0)
\* A remap that dropped the newer symbol and gave the older one an id that
\* is not below the new len().
C6_Witness ==
    /\ last.op = "remap" /\ last.ndrop = 1
    /\ Len(order) = 1
    /\ order[1].addr = 1
    /\ order[1].id >= TableLen(next_id)

\* C7 as stated: a remap whose callback numbers the kept symbols 0, 1, 2, ...
\* in callback order leaves the ids 0..N-1 and len() = N, each kept symbol at
\* the id the callback gave it, and the newest kept symbol at the id 0.
C7_SequentialCompaction ==
    (last.op = "remap" /\ last.tag = "seq") =>
        /\ {sym[a].id : a \in Alloc(sym)} = 0..(Len(order) - 1)
        /\ TableLen(next_id) = Len(order)
        /\ Len(TheChain) = Len(order)
        /\ \A i \in 1..Len(order) : sym[order[i].addr].id = order[i].id
        /\ Len(order) > 0 => sym[order[Len(order)].addr].id = 0

\* C8: whatever ids remap's callback supplies, len() is the number of
\* symbols reachable from the head, which are all the live ones, and it is
\* the value of next_id.
C8_LenIsCount ==
    /\ TableLen(next_id) = Len(TheChain)
    /\ Range(TheChain) = Alloc(sym)
    /\ Len(TheChain) = Cardinality(Alloc(sym))
    /\ next_id = Cardinality(Alloc(sym))
\* A remap that dropped a symbol and gave the other the id 1, then an
\* insert, which assigns the id 1 again.
C8_Witness ==
    /\ last.op = "insert" /\ ~fresh
    /\ Len(order) = 2
    /\ order[1].id = order[2].id

\* C9: every live symbol is at the address insert returned for it and holds
\* the value inserted there, after inserts of other symbols, after remaps
\* that kept it and after moves of the table.
C9_AddressStable ==
    /\ Len(TheChain) = Len(order)
    /\ Range(TheChain) = Range(OrderAddrs)
    /\ \A i \in 1..Len(order) :
        /\ order[i].addr \in Alloc(sym)
        /\ sym[order[i].addr].data = order[i].data
\* Two symbols inserted, both kept and renumbered by a remap, and the
\* table moved.
C9_Witness ==
    /\ last.op = "move" /\ ~fresh
    /\ Len(order) = 2
    /\ order[1].id > order[2].id

\* A symbol holding v is indexed.
Indexed(v) == \E r \in by_symbol : sym[r.val].data = v

\* C10: get_or_insert(v) on a value that is indexed returns that symbol
\* tagged Present and changes neither the table nor the lookup structures;
\* on a value that is not, it inserts one symbol holding v, returns it tagged
\* New and registers it in by_symbol and at its id in by_id.
C10_Step ==
    last'.op = "get_or_insert" =>
        IF Indexed(last'.arg)
        THEN /\ last'.tag = "Present"
             /\ UNCHANGED <<sym, head, next_id, by_symbol, by_id>>
             /\ last'.ret \in Alloc(sym)
             /\ sym[last'.ret].data = last'.arg
        ELSE /\ last'.tag = "New"
             /\ last'.ret \notin Alloc(sym)
             /\ Alloc(sym') = Alloc(sym) \cup {last'.ret}
             /\ \A a \in Alloc(sym) : sym'[a] = sym[a]
             /\ TableLen(next_id') = TableLen(next_id) + 1
             /\ head' = last'.ret
             /\ sym'[last'.ret] = [id |-> next_id, data |-> last'.arg, next |-> head]
             /\ by_symbol' = by_symbol \cup {[key |-> last'.ret, val |-> last'.ret]}
             /\ by_id' = Append(by_id, last'.ret)
             /\ by_id'[AsUsize(sym'[last'.ret].id) + 1] = last'.ret
C10_OneInsertionPerMiss == [][C10_Step]_vars
\* A miss on an index that was built over a compacted table.
C10_Witness ==
    /\ last.op = "get_or_insert" /\ last.tag = "New"
    /\ ~fresh /\ Len(by_id) = MaxLen
    /\ Cardinality(created) = 1

\* C11: when get_or_insert(v) is called twice in a row, the second call
\* returns the address the first returned, the symbol there carries the id
\* it carried after the first call, the second call is tagged Present, and
\* it leaves the table and both lookup structures as the first left them.
C11_Step ==
    (last.op = "get_or_insert" /\ last'.op = "get_or_insert" /\ last'.arg = last.arg) =>
        /\ last'.ret = last.ret
        /\ last'.ret \in Alloc(sym')
        /\ sym'[last'.ret].id = sym[last.ret].id
        /\ sym'[last'.ret].data = last'.arg
        /\ last'.tag = "Present"
        /\ UNCHANGED <<sym, head, next_id, loc, by_symbol, by_id>>
C11_GetOrInsertIdempotent == [][C11_Step]_vars
\* The second of two get_or_insert(v) calls, the first of which created the
\* head symbol in an index over a compacted table.
C11_Witness ==
    /\ last.op = "get_or_insert" /\ last.tag = "Present"
    /\ ~fresh
    /\ last.ret = head
    /\ [addr |-> head, data |-> last.arg, id |-> sym[head].id] \in created

\* C12: in an index over a table whose remaps kept the id contract,
\* get_symbol(i) returns a symbol exactly when a live symbol carries the id
\* i, the symbol returned is live and carries i, and for every other i,
\* in or out of by_id's range, the answer is None.
C12_GetSymbolExact ==
    loc = "index" =>
        \A i \in 0..(MaxLen + 1) :
            LET r == GetSymbol(by_id, i) IN
            /\ r # NULL <=> \E a \in Alloc(sym) : sym[a].id = i
            /\ r # NULL => (r \in Alloc(sym) /\ sym[r].id = i)
            /\ (last.op = "get_symbol" /\ last.arg = i) => last.ret = r
\* The symbol inserted second is the only one a remap kept; it now carries
\* the id 0, and get_symbol(1) finds nothing.
C12_Witness ==
    /\ loc = "index" /\ ~fresh
    /\ Alloc(sym) = {2}
    /\ sym[2].id = 0
    /\ last.op = "get_symbol" /\ last.arg = 1 /\ last.ret = NULL

\* C13: get(v) returns a live symbol holding v when a symbol holding v is
\* indexed, which is the case exactly when a live symbol holds v, and None
\* when none is; in both cases the table, by_symbol and by_id are as before.
C13_Step ==
    last'.op = "get" =>
        /\ Indexed(last'.arg) <=> \E a \in Alloc(sym) : sym[a].data = last'.arg
        /\ IF Indexed(last'.arg)
           THEN last'.ret \in Alloc(sym) /\ sym[last'.ret].data = last'.arg
           ELSE last'.ret = NULL
        /\ UNCHANGED <<sym, head, next_id, loc, by_symbol, by_id>>
C13_GetPure == [][C13_Step]_vars
\* A get that misses, on an index over a table holding one value twice.
C13_Witness ==
    /\ last.op = "get" /\ last.ret = NULL
    /\ Cardinality(Alloc(sym)) = 2
    /\ Cardinality(by_symbol) = 1

\* C14: while an iterator over a table reached by insert and remap is held,
\* the symbols it has yielded are the first ones of the chain from the head,
\* size_hint() is (r, Some(r)) with r the number of live symbols not yet
\* yielded, which is len() for a new iterator, and once it has answered None
\* it has yielded every live symbol once and r is 0.
C14_Iter ==
    iter.on =>
        /\ iter.seen = SubSeq(TheChain, 1, Len(iter.seen))
        /\ Len(iter.seen) <= Len(TheChain)
        /\ \A i, j \in 1..Len(iter.seen) : iter.seen[i] = iter.seen[j] => i = j
        /\ SizeHint(iter).lower = Cardinality(Alloc(sym)) - Len(iter.seen)
        /\ SizeHint(iter).upper = SizeHint(iter).lower
        /\ Len(iter.seen) = 0 => SizeHint(iter).lower = TableLen(next_id)
        /\ iter.ended => (Range(iter.seen) = Alloc(sym) /\ SizeHint(iter).lower = 0)
        /\ last.op = "iter" => Len(iter.seen) = 0
\* C14, each next(): it yields a symbol while size_hint() is above 0, and
\* size_hint() is then one less; it answers None when size_hint() is 0.
C14_Step ==
    last'.op = "next" =>
        IF SizeHint(iter).lower > 0
        THEN /\ last'.ret \in Alloc(sym) \ Range(iter.seen)
             /\ SizeHint(iter').lower = SizeHint(iter).lower - 1
        ELSE /\ last'.ret = NULL
             /\ SizeHint(iter').lower = 0
C14_IterExactCount == [](C14_Iter) /\ [][C14_Step]_vars
\* An iterator that has yielded both symbols of a compacted table and then
\* answered None.
C14_Witness ==
    /\ iter.on /\ iter.ended /\ ~fresh
    /\ Len(iter.seen) = 2
    /\ last.op = "next" /\ last.ret = NULL /\ last.arg = 0

\* C15: in an index built by from_table over a table in which inserts have
\* left a value more than once, by_symbol has one pair per value the table
\* holds, its key and its symbol both live and holding that value, and
\* by_id has one slot per symbol, slot i on the symbol whose id is i, the
\* symbols of equal value included.
C15_DuplicatesCollapse ==
    (loc = "index" /\ ~base.dupfree) =>
        /\ Cardinality(by_symbol) = Cardinality({sym[a].data : a \in Alloc(sym)})
        /\ \A r \in by_symbol :
            /\ r.key \in Alloc(sym) /\ r.val \in Alloc(sym)
            /\ sym[r.val].data = sym[r.key].data
        /\ \A a \in Alloc(sym) : \E r \in by_symbol : sym[r.val].data = sym[a].data
        /\ Len(by_id) = Cardinality(Alloc(sym))
        /\ \A a \in Alloc(sym) : by_id[AsUsize(sym[a].id) + 1] = a
\* from_table has just indexed a compacted table whose two symbols hold the
\* same value; the pair's key is one of them and its symbol the other.
C15_Witness ==
    /\ loc = "index" /\ ~base.dupfree /\ ~fresh
    /\ last.op = "from_table"
    /\ Cardinality(Alloc(sym)) = 2
    /\ \E r \in by_symbol : r.key # r.val

\* C16: to_hash_map leaves no table behind and returns a map with one key
\* per value the table held, each mapped to the id of a symbol that held that
\* value.
C16_Step ==
    last'.op = "to_hash_map" =>
        /\ loc' = "dropped" /\ Alloc(sym') = {} /\ head' = NULL
        /\ {r.key : r \in last'.map} = {sym[a].data : a \in Alloc(sym)}
        /\ \A r1, r2 \in last'.map : r1.key = r2.key => r1 = r2
        /\ \A r \in last'.map : \E a \in Alloc(sym) : sym[a].data = r.key /\ sym[a].id = r.val
C16_ToHashMap == [][C16_Step]_vars
\* A table of two symbols holding one value was turned into a map of one key.
C16_Witness ==
    /\ last.op = "to_hash_map" /\ last.arg = 2
    /\ Cardinality(last.map) = 1
    /\ loc = "dropped"

\* C17 as stated: every remap calls its callback once per live symbol, the
\* newest symbol first and the oldest last, also on a table that a remap
\* has compacted before.
C17_Step ==
    last'.op = "remap" =>
        /\ Len(last'.calls) = Cardinality(Alloc(sym))
        /\ Range(last'.calls) = Alloc(sym)
        /\ last'.calls = Reverse(OrderAddrs)
C17_CallbackNewestFirst == [][C17_Step]_vars

\* C18 as stated: whenever the caller can look at the table, also after a
\* remap whose callback panicked, len() is the number of symbols reachable
\* from the head, and a remap that did not return normally has left the
\* table as it was before the call.
C18_LenMatches == Owned => TableLen(next_id) = Len(TheChain)
C18_Step ==
    (last'.op = "remap" /\ last'.tag = "panic") => UNCHANGED <<sym, head, next_id>>
C18_ObservablyAtomic == [](C18_LenMatches) /\ [][C18_Step]_vars

\* C19 as stated: whatever ids remap's callback gave to the symbols it
\* kept, from_table over the result completes, and every slot of by_id and
\* every pair of by_symbol refers to a live symbol of the table.
C19_FromTableCompletes ==
    last.op = "from_table" =>
        /\ last.tag # "panic"
        /\ loc = "index"
        /\ \A i \in 1..Len(by_id) : by_id[i] \in Alloc(sym)
        /\ \A r \in by_symbol : r.key \in Alloc(sym) /\ r.val \in Alloc(sym)

\* C20 as stated: the reference the caller keeps from get, get_or_insert or
\* get_symbol is to a live symbol in every state; no retain through the
\* index runs while the caller holds one, so none is to a dropped symbol.
C20_NoDanglingRef == held # NULL => held \in Alloc(sym)

\* What a get(v) or get_symbol(i) run alone on the index finds.
AloneFinds(op, arg) ==
    IF op = "get"
    THEN IF \E r \in by_symbol : sym[r.key].data = arg
         THEN (CHOOSE r \in by_symbol : sym[r.key].data = arg).val
         ELSE NULL
    ELSE IF arg < Len(by_id) THEN by_id[arg + 1] ELSE NULL
\* C21, results: whatever the other threads are doing, a thread's get or
\* get_symbol has found the symbol the call finds when run alone, and it
\* returns that symbol's id and value: for a get the value asked for, for a
\* get_symbol the id asked for.
C21_Results ==
    \A t \in Threads :
        /\ threads[t].pc \in {"deref", "done"} =>
               threads[t].ptr = AloneFinds(threads[t].op, threads[t].arg)
        /\ threads[t].pc = "done" =>
               LET a == AloneFinds(threads[t].op, threads[t].arg) IN
               IF a = NULL THEN threads[t].ret = NoEntry
               ELSE /\ threads[t].ret = [some |-> TRUE, id |-> sym[a].id, data |-> sym[a].data]
                    /\ threads[t].op = "get" => threads[t].ret.data = threads[t].arg
                    /\ threads[t].op = "get_symbol" => threads[t].ret.id = threads[t].arg
\* C21, frame: no step of a reading thread changes the table, by_symbol or
\* by_id.
C21_Step == threads' # threads => UNCHANGED <<sym, head, next_id, loc, by_symbol, by_id>>
\* C21: interleaved get and get_symbol calls of several threads on a shared
\* index return what they return run alone and change nothing.
C21_ConcurrentReads == [](C21_Results) /\ [][C21_Step]_vars
\* Two calls in flight at once: a get_symbol that has returned a symbol and
\* a get that has found its symbol and not yet read it.
C21_Witness ==
    /\ threads[1].pc = "deref" /\ threads[1].op = "get" /\ threads[1].ptr # NULL
    /\ threads[2].pc = "done" /\ threads[2].op = "get_symbol" /\ threads[2].ret.some
    /\ Cardinality(Alloc(sym)) = 2

\* The index is what from_table builds over the table as it is now, and
\* each live symbol has one slot of by_id and one pair of by_symbol.
SameAsRebuilt ==
    LET x == FromTable(sym, head, next_id) IN
    /\ x.ok
    /\ by_id = x.by_id
    /\ by_symbol = x.by_symbol
    /\ \A a \in Alloc(sym) :
        /\ Cardinality({i \in 1..Len(by_id) : by_id[i] = a}) = 1
        /\ Cardinality({r \in by_symbol : r.val = a}) = 1

\* C22 as stated: after any inserts into the table, indexing,
\* get_or_insert calls and compactions followed by a rebuild, the index is
\* identical to one built anew by from_table, with one mapping per live
\* symbol.
C22_SameAsRebuiltAlways == loc = "index" => SameAsRebuilt
\* C22 as amended: the same, when the values inserted into the table before
\* it was indexed are pairwise distinct.
C22_SameAsRebuilt == (loc = "index" /\ base.dupfree) => SameAsRebuilt
\* The symbol inserted second survived a compaction, the table was indexed
\* again, a get_or_insert added a symbol and a second one found it.
C22_Witness ==
    /\ loc = "index" /\ base.dupfree /\ ~fresh
    /\ Len(order) = 2 /\ order[1].addr = 2
    /\ Cardinality(created) = 1
    /\ last.op = "get_or_insert" /\ last.tag = "Present" /\ last.ret = head

\* What a caller can observe of a table: the (id, value) pairs in iteration
\* order, and len().
Observable(s, h, nid) ==
    [pairs |-> [i \in 1..Len(Chain(s, h)) |-> <<s[Chain(s, h)[i]].id, s[Chain(s, h)[i]].data>>],
     len |-> TableLen(nid)]

\* C23 as stated: a remap whose callback numbers the symbols it keeps
\* 0, 1, 2, ... in callback order and drops the others leaves the table
\* observably as retain does with the predicate that holds for the symbols
\* kept.
C23_Step ==
    (last'.op = "remap" /\ last'.tag = "seq") =>
        LET r == Retain(sym, head, Alloc(sym')) IN
        Observable(sym', head', next_id') = Observable(r.sym, r.head, r.next_id)
C23_RemapIsRetain == [][C23_Step]_vars

\* The (value, id) associations of a table.
Associations(s) == {<<s[a].data, s[a].id>> : a \in Alloc(s)}

\* C24: a remap of a table that only inserts have built, the empty one
\* included, with a callback that answers each symbol's own id, leaves
\* len() and the set of (value, id) associations as they were.
C24_Step ==
    (/\ last'.op = "remap" /\ fresh
     /\ last'.ndrop = 0
     /\ \A i \in 1..Len(order') : order'[i].id = sym[order'[i].addr].id) =>
        /\ TableLen(next_id') = TableLen(next_id)
        /\ Associations(sym') = Associations(sym)
        /\ Len(Chain(sym', head')) = Len(Chain(sym, head))
C24_IdentityRemap == [][C24_Step]_vars
\* Two symbols with the ids 0 and 1 they were inserted with, after a remap
\* that dropped none.
C24_Witness ==
    /\ last.op = "remap" /\ last.ndrop = 0
    /\ Len(order) = 2
    /\ order[1].id = 0 /\ order[2].id = 1
    /\ sym[order[1].addr].id = 0 /\ sym[order[2].addr].id = 1

\* No slot of by_id and no pair of by_symbol refers to a symbol that is gone.
NoDangling ==
    /\ \A i \in 1..Len(by_id) : by_id[i] \in Alloc(sym)
    /\ \A r \in by_symbol : r.key \in Alloc(sym) /\ r.val \in Alloc(sym)
\* C25, order: the table is compacted only after the index was cleared, and
\* the index is built again only after the table was compacted.
C25_Step ==
    /\ last'.op = "retain" /\ last'.tag = "clear" => (loc = "index" /\ UNCHANGED <<sym, head, next_id>>)
    /\ last'.op = "retain" /\ last'.tag = "compact" =>
           (last.op = "retain" /\ last.tag = "clear" /\ by_symbol = {} /\ by_id = <<>>)
    /\ last'.op = "retain" /\ last'.tag = "index" =>
           (/\ last.op = "retain" /\ last.tag = "compact"
            /\ UNCHANGED <<sym, head, next_id>>
            /\ Len(by_id') = Cardinality(Alloc(sym))
            /\ \A a \in Alloc(sym) : by_id'[AsUsize(sym[a].id) + 1] = a
            /\ \A a \in Alloc(sym) : \E r \in by_symbol' : sym[r.val].data = sym[a].data
            /\ \A r \in by_symbol' : sym[r.val].data = sym[r.key].data
            /\ \A r1, r2 \in by_symbol' : sym[r1.key].data = sym[r2.key].data => r1 = r2)
\* C25: Indexed::retain clears the index, compacts the table and builds the
\* index again, in this order; in no state in between does the index refer
\* to a dropped symbol, and on return slot i of by_id is the surviving
\* symbol renumbered i and by_symbol has the pair of every surviving value.
C25_RetainOrder == [](NoDangling) /\ [][C25_Step]_vars
\* retain has returned after dropping one of two symbols.
C25_Witness ==
    /\ loc = "index" /\ last.op = "retain" /\ last.tag = "index"
    /\ ~fresh /\ Len(by_id) = 1 /\ Cardinality(by_symbol) = 1
    /\ Alloc(sym) = {1}

\* C26 as stated: a consuming iterator yields the symbols iter() yields on
\* the same table, which is the newest symbol first and the oldest last,
\* each once and detached from the chain; size_hint() is the number of
\* symbols not yet yielded, and on an empty table nothing is yielded.
C26_IntoIter ==
    loc = "into_iter" =>
        /\ iter.seen = SubSeq(iter.chain, 1, Len(iter.seen))
        /\ Len(iter.seen) <= Len(iter.chain)
        /\ \A i \in 1..Len(iter.seen) : sym[iter.seen[i]].next = NULL
        /\ SizeHint(iter).lower = Len(iter.chain) - Len(iter.seen)
        /\ SizeHint(iter).upper = SizeHint(iter).lower
        /\ iter.ended => iter.seen = iter.chain
        /\ iter.chain = Reverse(OrderAddrs)

\* C27, states: after inserts and remaps that number the survivors in
\* callback order, the symbols along the chain from the head carry the ids
\* len()-1, len()-2, ..., 0, so no two live symbols share an id.
C27_ChainIds ==
    /\ \A i \in 1..Len(TheChain) : AsUsize(sym[TheChain[i]].id) = TableLen(next_id) - i
    /\ Len(TheChain) = TableLen(next_id)
    /\ \A a, b \in Alloc(sym) : sym[a].id = sym[b].id => a = b
\* C27, inserts: an insert into a table of N symbols assigns the id N.
C27_Step ==
    last'.op = "insert" => AsUsize(sym'[head'].id) = Cardinality(Alloc(sym))
C27_DescendingIds == [](C27_ChainIds) /\ [][C27_Step]_vars
\* The symbol inserted second was the only survivor of a remap, which gave
\* it the id 0; the insert after it assigned the id 1.
C27_Witness ==
    /\ last.op = "insert" /\ ~fresh
    /\ Len(order) = 2
    /\ order[1].addr = 2 /\ sym[2].id = 0
    /\ head = order[2].addr /\ sym[head].id = 1

\* ------------------------------------------------- narrow identifier types
\* SymbolId for u8, u16, u32, u64: a type of IdBits bits holds 0..IdRange-1.
IdRange == 2 ^ IdBits
\* `*self + 1` that never leaves the natural numbers.
NarrowNextNoWrap(d) == d + 1
\* next() as a build without overflow checks computes `*self + 1`.
NarrowNext(d) == (d + 1) % IdRange
\* `*self + 1` in a build with overflow checks panics when the sum does not
\* fit the type.
NarrowNextOverflows(d) == d + 1 >= IdRange
\* A heap that holds two symbols more than the type has ids.
NarrowAddr == 1..(IdRange + 2)
NarrowBoxNew(s) == LowestFree(NarrowAddr \ Alloc(s), AllocChoices)

\* Table<T, D>::insert for a narrow D, where next() returns.
InsertNarrow ==
    /\ Owned
    /\ NarrowAddr \ Alloc(sym) # {}
    /\ \E v \in Values, a \in NarrowBoxNew(sym) :
        /\ sym' = InsertSym(sym, head, next_id, v, a)
        /\ head' = a
        /\ next_id' = NarrowNext(next_id)
        /\ order' = Append(order, [addr |-> a, data |-> v, id |-> next_id])
        /\ last' = [NoCall EXCEPT !.op = "insert", !.arg = v, !.ret = a]
    /\ iter' = NoIter
    /\ held' = NULL
    /\ UNCHANGED <<loc, by_symbol, by_id, base, created, fresh, threads>>

\* Table<T, D>::insert for a narrow D in a build with overflow checks: next()
\* panics before next_id is assigned and before the symbol is boxed.
InsertNarrowPanic ==
    /\ Owned
    /\ NarrowNextOverflows(next_id)
    /\ \E v \in Values :
        last' = [NoCall EXCEPT !.op = "insert", !.arg = v, !.tag = "panic"]
    /\ iter' = NoIter
    /\ held' = NULL
    /\ UNCHANGED <<sym, head, next_id, order, loc, by_symbol, by_id, base, created, fresh,
                   threads>>

\* Table::len
LenCall ==
    /\ Owned
    /\ last' = [NoCall EXCEPT !.op = "len", !.ret = TableLen(next_id)]
    /\ UNCHANGED <<sym, head, next_id, order, loc, by_symbol, by_id, base, created, fresh,
                   iter, held, threads>>

NextNarrow ==
    \/ InsertNarrow
    \/ InsertNarrowPanic
    \/ LenCall
    \/ MoveTable
    \/ FromTableCall
    \/ GetCall
    \/ GetSymbolCall
    \/ ToTable
    \/ NewTable
SpecNarrow == Init /\ [][NextNarrow]_vars

\* C28, states: while at most IdRange - 1 symbols were inserted, no two of
\* them share an id and len() is the number of symbols; len() of a table of
\* IdRange symbols is 0.
C28_WithinRange ==
    /\ Len(order) <= IdRange - 1 =>
        /\ \A a, b \in Alloc(sym) : sym[a].id = sym[b].id => a = b
        /\ TableLen(next_id) = Cardinality(Alloc(sym))
    /\ Len(order) = IdRange =>
        /\ Cardinality(Alloc(sym)) = IdRange
        /\ next_id = ZeroId
        /\ last.op = "len" => last.ret = 0
\* C28, inserts: the insert that assigns the id IdRange - 1 wraps next_id to
\* 0 where `*self + 1` wraps, and the insert after it assigns the id 0 a
\* second time.
C28_Step ==
    (last'.op = "insert" /\ last'.tag # "panic") =>
        /\ Len(order) = IdRange - 1 =>
            /\ sym'[head'].id = IdRange - 1
            /\ next_id' = ZeroId
            /\ TableLen(next_id') = 0
            /\ Cardinality(Alloc(sym')) = IdRange
            /\ \A a, b \in Alloc(sym') : sym'[a].id = sym'[b].id => a = b
        /\ Len(order) = IdRange =>
            /\ sym'[head'].id = ZeroId
            /\ \E a \in Alloc(sym) : sym'[a].id = ZeroId /\ a # head'
C29_View ==
    loc = "index" =>
        /\ Range(TheChain) = {order[i].addr : i \in 1..Len(order)}
        /\ Len(TheChain) = Len(order)
        /\ \A i \in 1..Len(order) : sym[order[i].addr].data = order[i].data
\* C29, steps: from_table, where it returns, and to_table leave every symbol,
\* the head and next_id as they were; a get_or_insert that misses puts the
\* symbol it makes at the head of the chain, in front of the others.
C29_Step ==
    /\ ((last'.op = "from_table" /\ last'.tag # "panic") \/ last'.op = "to_table") =>
        /\ sym' = sym /\ head' = head /\ next_id' = next_id
        /\ Chain(sym', head') = TheChain
        /\ TableLen(next_id') = TableLen(next_id)
    /\ (last'.op = "get_or_insert" /\ last'.tag = "New") =>
        /\ head' = last'.ret
        /\ sym'[head'].data = last'.arg
        /\ Chain(sym', head') = <<head'>> \o TheChain
\* C29: to_table(from_table(t)) is t, with the same chain (symbols, ids,
\* values, order, addresses) and the same len(); the table an index holds has
\* exactly the symbols inserted so far, the one the latest get_or_insert
\* miss made being the head.
C29_RoundTrip == [](C29_View) /\ [][C29_Step]_vars
\* to_table has returned a table of two symbols, the head being the one
\* inserted last.
C29_Witness ==
    /\ loc = "caller" /\ last.op = "to_table"
    /\ Len(order) = 2 /\ Len(TheChain) = 2
    /\ head = order[2].addr
====
